---- MODULE Spec2Model ----
(***************************************************************************)
(* Handle ownership in winsafe: guard-returning acquisitions, the process  *)
(* list snapshot with its iterators, and the COM wrappers that decode the  *)
(* returned status themselves.                                             *)
(***************************************************************************)
EXTENDS Integers, Sequences, FiniteSets, TLC

\* ------------------------------------------------------------------ bounds
\* Number of acquisition attempts of one run.
MaxGuards == 2
\* Valid raw handle values the OS may hand out: 1..MaxHandle.
MaxHandle == 2

\* --------------------------------------------------------------- constants
\* Handle::NULL, the null pointer.
NULL == 0
\* Handle::INVALID, INVALID_HANDLE_VALUE.
INVALID == -1

ValidHandles == 1..MaxHandle
\* Values GetLastError() reports after a failed call (ACCESS_DENIED,
\* NOT_ENOUGH_MEMORY).
LastErrors == {5, 8}

Ids == 1..MaxGuards
Slots == {"a", "b"}

\* SysResult / HrResult values.
Ok(v) == [ok |-> TRUE, val |-> v]
Err(e) == [ok |-> FALSE, err |-> e]

\* A u32 status as its two 16-bit halves.
HR(hi, lo) == [hi |-> hi, lo |-> lo]
S_OK == HR(0, 0)
S_FALSE == HR(0, 1)

\* ------------------------------------------------------ error conversion
\* kernel::privs::ptr_to_sysresult: null is failure, last error fetched.
ptr_to_sysresult(ptr, lastErr) ==
    IF ptr = NULL THEN Err(lastErr) ELSE Ok(ptr)

\* kernel::privs::ptr_to_sysresult_handle: the same, yielding a typed handle.
ptr_to_sysresult_handle(ptr, lastErr) ==
    IF ptr = NULL THEN Err(lastErr) ELSE Ok(ptr)

\* ----------------------------------------------------------- acquisitions
\* What the platform call behind each operation can return.
OsReturns(op) ==
    CASE op = "GetStdHandle" -> {INVALID, NULL} \cup ValidHandles
      [] OTHER -> {NULL} \cup ValidHandles

\* The return value with which the platform call signals failure.
OsFailure(op) ==
    IF op = "GetStdHandle" THEN INVALID ELSE NULL

\* The platform call's answers <<return value, last error>>: the last error
\* is set by a failing call.
OsOutcomes(op) ==
    {o \in OsReturns(op) \X ({0} \cup LastErrors) :
        (o[1] = OsFailure(op)) <=> (o[2] # 0)}

GetStdHandle_wrong(osret, lastErr) ==
    IF osret = NULL THEN Err(lastErr) ELSE Ok(osret)

GetStdHandle_swap(osret, lastErr) ==
    IF osret = INVALID THEN Err(lastErr)
    ELSE IF osret \in ValidHandles THEN Ok((osret % MaxHandle) + 1)
    ELSE Ok(osret)

GetStdHandle(osret, lastErr) ==
    IF osret = INVALID THEN Err(lastErr) ELSE Ok(osret)

CreateBitmap(osret, lastErr) == ptr_to_sysresult_handle(osret, lastErr)

LoadCursor(osret, lastErr) == ptr_to_sysresult(osret, lastErr)

LoadIcon(osret, lastErr) == ptr_to_sysresult(osret, lastErr)

LoadImageBitmap(osret, lastErr) == ptr_to_sysresult_handle(osret, lastErr)

LoadImageCursor(osret, lastErr) == ptr_to_sysresult_handle(osret, lastErr)

LoadImageIcon(osret, lastErr) == ptr_to_sysresult_handle(osret, lastErr)

\* The acquisitions that wrap a handle in a guard.
HandleOps ==
    {"GetStdHandle", "CreateBitmap", "LoadCursor", "LoadIcon",
     "LoadImageBitmap", "LoadImageCursor", "LoadImageIcon"}

\* First ID of the auto_ctrl_id sequence.
AutoIdBase == 20

\* ------------------------------------------------------------------ state
VARIABLES
    nAtt,       \* acquisition attempts made so far
    att,        \* att[i]: operation, platform return value and result of attempt i
    held,       \* held[i]: what guard i holds now
    life,       \* life[i]: "none" | "live" | "dropped"
    slot,       \* slot[s]: the owner variable s
    relCount,   \* relCount[i]: release calls made on behalf of guard i
    relArg,     \* relArg[i]: the handles those release calls were given
    detachRet,  \* detachRet[i]: what detaching guard i returned to the caller
    moved,      \* guards that changed owner at least once
    pc,         \* position in the snapshot example program
    snap,       \* the CreateToolhelp32Snapshot call: platform return, result
    hpl,        \* the example's variable hpl
    osOpen,     \* the platform holds an open snapshot object
    remaining,  \* entries of the snapshot not enumerated yet
    closeCalls, \* CloseHandle calls made on the snapshot handle
    iter,       \* the iterator: kind, hpl, first_pass, has_more
    firstCalls, \* calls of the iterator's *First operation
    nextCalls,  \* calls of the iterator's *Next operation
    lastItem,   \* what the last next() returned
    nextInvoked,      \* calls of the iterator's next() made so far
    showCall,   \* the last IModalWindow::Show call: status and result
    attrCall,   \* the last IShellItem::GetAttributes call
    parent,     \* the parent window: its handle and whether it is a dialog
    btn,        \* the Button: opts_id and the ID its events are registered under
    base_hwnd,  \* NativeControlBase::hwnd
    parent_events,    \* handlers in NativeControlBase::parent_events
    subclass_events,  \* handlers in NativeControlBase::subclass_events
    guiPanic,   \* the panic message, "none" while the program runs
    lastOn,     \* the last on / on_subclass call and whether it panicked
    createCalls,      \* calls of Button::create made so far
    winCreated, \* windows the platform handed to the control
    createRes,  \* the last Button::create call that returned
    subclassCalls,    \* the SetWindowSubclass calls made, in order
    BASE_SUBCLASS_ID, \* the static counter of subclass IDs
    next_auto_id,     \* the next ID auto_ctrl_id hands out
    ctrls,      \* LayoutArranger: the children added, in order
    sz_parent_orig,   \* LayoutArranger: the saved client area of the parent
    layoutPanic,      \* the panic message of add_child, "none" while running
    lastSize,   \* the last rearrange call: its message and result
    deferCalls, \* the DeferWindowPos calls the last rearrange made
    arrayOwned, \* the IShellItemArray is still in scope
    releaseCalls,     \* Release calls made on the IShellItemArray pointer
    sit,        \* the ShellItemIter: count and current
    iterRes,    \* the iter() call: GetCount's status and count, the result
    getCountCalls,    \* GetCount calls made
    itemCalls,  \* the indexes GetItemAt was called with, in order
    yields      \* what the next() calls returned, in order

guardVars == <<nAtt, att, held, life, slot, relCount, relArg, detachRet, moved>>

snapVars ==
    <<pc, snap, hpl, osOpen, remaining, closeCalls, iter, firstCalls,
      nextCalls, lastItem, nextInvoked>>

comVars == <<showCall, attrCall>>

guiVars ==
    <<parent, btn, base_hwnd, parent_events, subclass_events, guiPanic, lastOn,
      createCalls, winCreated, createRes, subclassCalls, BASE_SUBCLASS_ID,
      next_auto_id>>

layoutVars == <<ctrls, sz_parent_orig, layoutPanic, lastSize, deferCalls>>

shellVars ==
    <<arrayOwned, releaseCalls, sit, iterRes, getCountCalls, itemCalls, yields>>

otherVars == <<guiVars, layoutVars, shellVars>>

vars == <<guardVars, snapVars, comVars, otherVars>>

NoAtt == [op |-> "none"]
Nothing == [st |-> "none"]
Emptied == [st |-> "empty"]
Has(h) == [st |-> "has", h |-> h]
EmptySlot == [st |-> "empty"]
Owns(i) == [st |-> "owns", id |-> i]
MovedFrom(i) == [st |-> "moved", id |-> i]

Init ==
    /\ nAtt = 0
    /\ att = [i \in Ids |-> NoAtt]
    /\ held = [i \in Ids |-> Nothing]
    /\ life = [i \in Ids |-> "none"]
    /\ slot = [s \in Slots |-> EmptySlot]
    /\ relCount = [i \in Ids |-> 0]
    /\ relArg = [i \in Ids |-> {}]
    /\ detachRet = [i \in Ids |-> Nothing]
    /\ moved = {}
    /\ pc = "start"
    /\ snap = NoAtt
    /\ hpl = Nothing
    /\ osOpen = FALSE
    /\ remaining = 0
    /\ closeCalls = 0
    /\ iter = [kind |-> "none"]
    /\ firstCalls = 0
    /\ nextCalls = 0
    /\ lastItem = [st |-> "none"]
    /\ nextInvoked = 0
    /\ showCall = [called |-> FALSE]
    /\ attrCall = [called |-> FALSE]
    /\ parent = [hwnd |-> NULL, dlg |-> FALSE]
    /\ btn = [st |-> "none"]
    /\ base_hwnd = NULL
    /\ parent_events = 0
    /\ subclass_events = 0
    /\ guiPanic = "none"
    /\ lastOn = [called |-> FALSE]
    /\ createCalls = 0
    /\ winCreated = 0
    /\ createRes = [called |-> FALSE]
    /\ subclassCalls = <<>>
    /\ BASE_SUBCLASS_ID = 0
    /\ next_auto_id = AutoIdBase
    /\ ctrls = <<>>
    /\ sz_parent_orig = [cx |-> 0, cy |-> 0]
    /\ layoutPanic = "none"
    /\ lastSize = [called |-> FALSE]
    /\ deferCalls = <<>>
    /\ arrayOwned = TRUE
    /\ releaseCalls = 0
    /\ sit = [st |-> "none"]
    /\ iterRes = [called |-> FALSE]
    /\ getCountCalls = 0
    /\ itemCalls = <<>>
    /\ yields = <<>>

\* `let s = op(..)?;`: the attempt is recorded; a guard is constructed and
\* bound to s only when the result is Ok.
Acquire(s, op, os, res) ==
    /\ nAtt < MaxGuards
    /\ slot[s] = EmptySlot
    /\ nAtt' = nAtt + 1
    /\ att' = [att EXCEPT ![nAtt + 1] = [op |-> op, osret |-> os[1],
                                        lastErr |-> os[2], res |-> res]]
    /\ IF res.ok
       THEN /\ held' = [held EXCEPT ![nAtt + 1] = Has(res.val)]
            /\ life' = [life EXCEPT ![nAtt + 1] = "live"]
            /\ slot' = [slot EXCEPT ![s] = Owns(nAtt + 1)]
       ELSE UNCHANGED <<held, life, slot>>
    /\ UNCHANGED <<relCount, relArg, detachRet, moved, snapVars, comVars, otherVars>>

Call_GetStdHandle(s) ==
    \E os \in OsOutcomes("GetStdHandle") :
        Acquire(s, "GetStdHandle", os, GetStdHandle(os[1], os[2]))

Call_CreateBitmap(s) ==
    \E os \in OsOutcomes("CreateBitmap") :
        Acquire(s, "CreateBitmap", os, CreateBitmap(os[1], os[2]))

Call_LoadCursor(s) ==
    \E os \in OsOutcomes("LoadCursor") :
        Acquire(s, "LoadCursor", os, LoadCursor(os[1], os[2]))

Call_LoadIcon(s) ==
    \E os \in OsOutcomes("LoadIcon") :
        Acquire(s, "LoadIcon", os, LoadIcon(os[1], os[2]))

Call_LoadImageBitmap(s) ==
    \E os \in OsOutcomes("LoadImageBitmap") :
        Acquire(s, "LoadImageBitmap", os, LoadImageBitmap(os[1], os[2]))

Call_LoadImageCursor(s) ==
    \E os \in OsOutcomes("LoadImageCursor") :
        Acquire(s, "LoadImageCursor", os, LoadImageCursor(os[1], os[2]))

Call_LoadImageIcon(s) ==
    \E os \in OsOutcomes("LoadImageIcon") :
        Acquire(s, "LoadImageIcon", os, LoadImageIcon(os[1], os[2]))

\* CoUninitializeGuard::new(hr): takes the code, always yields a guard.
CoUninitializeGuard_new(s) ==
    \E hr \in {S_OK, S_FALSE} :
        Acquire(s, "CoUninitializeGuard", <<NULL, 0>>, Ok(hr))

\* CoUninitializeGuard::hr(&self): the code the guard was built with.
hr(i) == held[i].h

\* ------------------------------------------------------------------- drop
\* The release calls on record after guard i is dropped.
Drop_CoUninitializeGuard_skip(i) ==
    [rc |-> relCount, ra |-> relArg]

\* impl Drop for CoUninitializeGuard: one CoUninitialize() call, which
\* returns nothing.
Drop_CoUninitializeGuard(i) ==
    [rc |-> [relCount EXCEPT ![i] = @ + 1], ra |-> relArg]

\* The handle guards: one release call on the held handle, none once the
\* guard has been emptied.
Drop_HandleGuard(i) ==
    IF held[i].st = "has"
    THEN [rc |-> [relCount EXCEPT ![i] = @ + 1],
          ra |-> [relArg EXCEPT ![i] = @ \cup {held[i].h}]]
    ELSE [rc |-> relCount, ra |-> relArg]

DropGuard(i) ==
    IF att[i].op = "CoUninitializeGuard"
    THEN Drop_CoUninitializeGuard(i)
    ELSE Drop_HandleGuard(i)

\* The owner variables after `b = a`.
Move_copy(a, b) ==
    [slot EXCEPT ![b] = slot[a]]

\* A guard is neither Copy nor Clone: the source is left moved-from.
Move_slots(a, b) ==
    [slot EXCEPT ![a] = MovedFrom(slot[a].id), ![b] = slot[a]]

\* `b = a;` or `let b = a;`: the guard changes owner; a guard b held before
\* is dropped by the assignment.
Move(a, b) ==
    /\ a # b
    /\ slot[a].st = "owns"
    /\ slot' = Move_slots(a, b)
    /\ moved' = moved \cup {slot[a].id}
    /\ IF slot[b].st = "owns"
       THEN /\ relCount' = DropGuard(slot[b].id).rc
            /\ relArg' = DropGuard(slot[b].id).ra
            /\ life' = [life EXCEPT ![slot[b].id] = "dropped"]
       ELSE UNCHANGED <<relCount, relArg, life>>
    /\ UNCHANGED <<nAtt, att, held, detachRet, snapVars, comVars, otherVars>>

\* The owner variable s goes out of scope: the guard it owns is dropped; a
\* moved-from variable drops nothing.
ScopeExit(s) ==
    /\ slot[s].st # "empty"
    /\ slot' = [slot EXCEPT ![s] = EmptySlot]
    /\ IF slot[s].st = "owns"
       THEN /\ relCount' = DropGuard(slot[s].id).rc
            /\ relArg' = DropGuard(slot[s].id).ra
            /\ life' = [life EXCEPT ![slot[s].id] = "dropped"]
       ELSE UNCHANGED <<relCount, relArg, life>>
    /\ UNCHANGED <<nAtt, att, held, detachRet, moved, snapVars, comVars, otherVars>>

\* What the guard holds after a detach.
Leak_keep(i) == held

Leak_held(i) == [held EXCEPT ![i] = Emptied]

\* Detach of a handle guard: the handle is handed to the caller and the
\* guard is left empty.
Leak(s) ==
    /\ slot[s].st = "owns"
    /\ att[slot[s].id].op \in HandleOps
    /\ held[slot[s].id].st = "has"
    /\ detachRet' = [detachRet EXCEPT ![slot[s].id] = Has(held[slot[s].id].h)]
    /\ held' = Leak_held(slot[s].id)
    /\ UNCHANGED <<nAtt, att, life, slot, relCount, relArg, moved, snapVars, comVars, otherVars>>

\* ------------------------------------------------- process list snapshot
\* Entries a snapshot may hold.
MaxEntries == 2

\* co::ERROR::NO_MORE_FILES
NO_MORE_FILES == 18

\* Calls of next() a caller makes on one iterator.
MaxNextCalls == MaxEntries + 2

IterKinds == {"heaps", "modules", "processes", "threads"}

\* `.as_mut()` is None for the null pointer alone; every other pointer is
\* wrapped as a handle.
CreateToolhelp32Snapshot(osret, lastErr) ==
    IF osret = NULL THEN Err(lastErr) ELSE Ok(osret)

\* The eight *First / *Next wrappers: zero with NO_MORE_FILES is the end of
\* the list, zero with another error is that error.
Heap32ListFirst(ret, lastErr) ==
    IF ret = 0
    THEN IF lastErr = NO_MORE_FILES THEN Ok(FALSE) ELSE Err(lastErr)
    ELSE Ok(TRUE)

Heap32ListNext(ret, lastErr) ==
    IF ret = 0
    THEN IF lastErr = NO_MORE_FILES THEN Ok(FALSE) ELSE Err(lastErr)
    ELSE Ok(TRUE)

Module32First(ret, lastErr) ==
    IF ret = 0
    THEN IF lastErr = NO_MORE_FILES THEN Ok(FALSE) ELSE Err(lastErr)
    ELSE Ok(TRUE)

Module32Next(ret, lastErr) ==
    IF ret = 0
    THEN IF lastErr = NO_MORE_FILES THEN Ok(FALSE) ELSE Err(lastErr)
    ELSE Ok(TRUE)

Process32First(ret, lastErr) ==
    IF ret = 0
    THEN IF lastErr = NO_MORE_FILES THEN Ok(FALSE) ELSE Err(lastErr)
    ELSE Ok(TRUE)

Process32Next(ret, lastErr) ==
    IF ret = 0
    THEN IF lastErr = NO_MORE_FILES THEN Ok(FALSE) ELSE Err(lastErr)
    ELSE Ok(TRUE)

Thread32First(ret, lastErr) ==
    IF ret = 0
    THEN IF lastErr = NO_MORE_FILES THEN Ok(FALSE) ELSE Err(lastErr)
    ELSE Ok(TRUE)

Thread32Next(ret, lastErr) ==
    IF ret = 0
    THEN IF lastErr = NO_MORE_FILES THEN Ok(FALSE) ELSE Err(lastErr)
    ELSE Ok(TRUE)

First(kind, ret, lastErr) ==
    CASE kind = "heaps" -> Heap32ListFirst(ret, lastErr)
      [] kind = "modules" -> Module32First(ret, lastErr)
      [] kind = "processes" -> Process32First(ret, lastErr)
      [] OTHER -> Thread32First(ret, lastErr)

NextEntry(kind, ret, lastErr) ==
    CASE kind = "heaps" -> Heap32ListNext(ret, lastErr)
      [] kind = "modules" -> Module32Next(ret, lastErr)
      [] kind = "processes" -> Process32Next(ret, lastErr)
      [] OTHER -> Thread32Next(ret, lastErr)

\* What the platform's *First / *Next call can answer for handle h: the
\* pairs <<return value, last error>>.
OsEnum(h) ==
    IF ~(osOpen /\ h \in ValidHandles)
    THEN {<<0, 6>>}
    ELSE IF remaining > 0
         THEN {<<1, 0>>} \cup {<<0, e>> : e \in LastErrors}
         ELSE {<<0, NO_MORE_FILES>>}

\* The answers <<return value, last error>> of the platform's
\* CreateToolhelp32Snapshot: INVALID with the last error set on failure, a
\* snapshot handle on success.
SnapshotOutcomes ==
    {<<INVALID, e>> : e \in LastErrors} \cup {<<h, 0>> : h \in ValidHandles}

IterNew_not_first(kind, h) ==
    [kind |-> kind, hpl |-> h, first_pass |-> FALSE, has_more |-> TRUE]

\* HeapIter::new and its three siblings.
IterNew(kind, h) ==
    [kind |-> kind, hpl |-> h, first_pass |-> TRUE, has_more |-> TRUE]

\* `let hpl = HPROCESSLIST::CreateToolhelp32Snapshot(flags, pid)?;`
Ex_CreateToolhelp32Snapshot ==
    /\ pc = "start"
    /\ \E os \in SnapshotOutcomes, n \in 0..MaxEntries :
          /\ snap' = [op |-> "CreateToolhelp32Snapshot", osret |-> os[1],
                      lastErr |-> os[2],
                      res |-> CreateToolhelp32Snapshot(os[1], os[2])]
          /\ osOpen' = (os[1] \in ValidHandles)
          /\ remaining' = IF os[1] \in ValidHandles THEN n ELSE 0
          /\ IF snap'.res.ok
             THEN hpl' = Has(snap'.res.val) /\ pc' = "iter"
             ELSE hpl' = hpl /\ pc' = "ret_err"
    /\ UNCHANGED <<closeCalls, iter, firstCalls, nextCalls, lastItem,
                   nextInvoked>>
    /\ UNCHANGED <<guardVars, comVars, otherVars>>

\* `hpl.iter_heaps()` (iter_modules, iter_processes, iter_threads): the
\* iterator gets a copy of the handle.
Ex_iter ==
    /\ pc = "iter"
    /\ \E kind \in IterKinds : iter' = IterNew(kind, hpl.h)
    /\ pc' = "next"
    /\ UNCHANGED <<snap, hpl, osOpen, remaining, closeCalls, firstCalls,
                   nextCalls, lastItem, nextInvoked>>
    /\ UNCHANGED <<guardVars, comVars, otherVars>>

\* HeapIter::next and its three siblings.
Iter_next ==
    /\ pc = "next"
    /\ IF ~iter.has_more
       THEN /\ lastItem' = [st |-> "None"]
            /\ UNCHANGED <<iter, firstCalls, nextCalls, remaining>>
       ELSE \E os \in OsEnum(iter.hpl) :
            LET has_more_res ==
                    IF iter.first_pass
                    THEN First(iter.kind, os[1], os[2])
                    ELSE NextEntry(iter.kind, os[1], os[2])
            IN  /\ firstCalls' = IF iter.first_pass THEN firstCalls + 1 ELSE firstCalls
                /\ nextCalls' = IF iter.first_pass THEN nextCalls ELSE nextCalls + 1
                /\ remaining' = IF os[1] # 0 THEN remaining - 1 ELSE remaining
                /\ IF ~has_more_res.ok
                   THEN /\ iter' = [iter EXCEPT !.first_pass = FALSE, !.has_more = FALSE]
                        /\ lastItem' = [st |-> "SomeErr", err |-> has_more_res.err]
                   ELSE /\ iter' = [iter EXCEPT !.first_pass = FALSE,
                                                !.has_more = has_more_res.val]
                        /\ lastItem' = IF has_more_res.val
                                       THEN [st |-> "SomeOk"]
                                       ELSE [st |-> "None"]
    /\ pc' = "body"
    /\ nextInvoked' = nextInvoked + 1
    /\ UNCHANGED <<snap, hpl, osOpen, closeCalls>>
    /\ UNCHANGED <<guardVars, comVars, otherVars>>

\* The `for` loop of the example: `let entry = entry?;` returns from the
\* function on an error entry, None ends the loop.
Ex_LoopBody ==
    /\ pc = "body"
    /\ pc' = CASE lastItem.st = "SomeOk" -> "next"
               [] lastItem.st = "SomeErr" -> "ret_err"
               [] OTHER -> "close"
    /\ UNCHANGED <<snap, hpl, osOpen, remaining, closeCalls, iter, firstCalls,
                   nextCalls, lastItem, nextInvoked>>
    /\ UNCHANGED <<guardVars, comVars, otherVars>>

\* A caller that drives the iterator by hand may call next() again after
\* it returned None or an error.
Ex_next_again ==
    /\ pc = "body"
    /\ lastItem.st # "SomeOk"
    /\ nextInvoked < MaxNextCalls
    /\ pc' = "next"
    /\ UNCHANGED <<snap, hpl, osOpen, remaining, closeCalls, iter, firstCalls,
                   nextCalls, lastItem, nextInvoked>>
    /\ UNCHANGED <<guardVars, comVars, otherVars>>

\* `hpl.CloseHandle()?;` after the loop.
Ex_CloseHandle ==
    /\ pc = "close"
    /\ closeCalls' = closeCalls + 1
    /\ osOpen' = FALSE
    /\ pc' = IF osOpen /\ hpl.h \in ValidHandles THEN "ret_ok" ELSE "ret_err"
    /\ UNCHANGED <<snap, hpl, remaining, iter, firstCalls, nextCalls, lastItem,
                   nextInvoked>>
    /\ UNCHANGED <<guardVars, comVars, otherVars>>

\* ------------------------------------------------------------ COM status
\* co::ERROR::CANCELLED
ERROR_CANCELLED == 1223

\* co::ERROR::to_hresult: severity bit and FACILITY_WIN32 (0x8007) in the
\* high half, the code in the low half.
to_hresult(code) == HR(32775, code % 65536)

CANCELLED == to_hresult(ERROR_CANCELLED)

\* Statuses a COM method may return.
Statuses ==
    {S_OK, S_FALSE, CANCELLED, HR(0, ERROR_CANCELLED), HR(32775, 1222),
     HR(32768, ERROR_CANCELLED), HR(32768, 16389), HR(32775, 5)}

\* SFGAO values the callee may write to the out-parameter.
AttrValues == {0, 1, 2}

Show_cancel_true(status) ==
    IF status = S_OK \/ status = CANCELLED THEN Ok(TRUE) ELSE Err(status)

\* shell_IModalWindow::Show
Show(status) ==
    IF status = S_OK THEN Ok(TRUE)
    ELSE IF status = CANCELLED THEN Ok(FALSE)
    ELSE Err(status)

GetAttributes_strict(status, attrs) ==
    IF status = S_OK THEN Ok(attrs) ELSE Err(HR(32768, 16389))

\* shell_IShellItem::GetAttributes
GetAttributes(status, attrs) ==
    IF status = S_OK \/ status = S_FALSE THEN Ok(attrs) ELSE Err(status)

Call_Show ==
    /\ \E status \in Statuses :
          showCall' = [called |-> TRUE, status |-> status, res |-> Show(status)]
    /\ UNCHANGED <<attrCall, guardVars, snapVars, otherVars>>

Call_GetAttributes ==
    /\ \E status \in Statuses, attrs \in AttrValues :
          attrCall' = [called |-> TRUE, status |-> status, attrs |-> attrs,
                       res |-> GetAttributes(status, attrs)]
    /\ UNCHANGED <<showCall, guardVars, snapVars, otherVars>>

\* ---------------------------------------------------------- native control
\* Handlers registered per registry.
MaxEvents == 2

\* Calls of Button::create.
MaxCreate == 2

\* Control IDs a caller passes in ButtonOpts; zero is the default.
CtrlIdInputs == {0, 7}

\* `self as *const Self as usize`
SelfPtr == "NativeControlBase"

\* gui::globals::auto_ctrl_id: the next ID of a sequence of non-zero IDs.
auto_ctrl_id(n) == [id |-> n, next |-> n + 1]

define_ctrl_id_always(ctrl_id, n) ==
    [ctrl_id |-> auto_ctrl_id(n).id, next |-> auto_ctrl_id(n).next]

\* ButtonOpts::define_ctrl_id
define_ctrl_id(ctrl_id, n) ==
    IF ctrl_id = 0
    THEN [ctrl_id |-> auto_ctrl_id(n).id, next |-> auto_ctrl_id(n).next]
    ELSE [ctrl_id |-> ctrl_id, next |-> n]

\* NativeControlBase::is_parent_created
is_parent_created == parent.hwnd # NULL

on_panic_never(hwnd, parent_created) == "none"

\* The panics of NativeControlBase::on; "none" when it returns the registry.
on_panic(hwnd, parent_created) ==
    IF hwnd # NULL THEN "Cannot add events after the control is created."
    ELSE IF parent_created
    THEN "Cannot add events after the parent window is created."
    ELSE "none"

\* The panics of NativeControlBase::on_subclass.
on_subclass_panic(hwnd, parent_created) ==
    IF hwnd # NULL
    THEN "Cannot add subclass events after the control is created."
    ELSE IF parent_created
    THEN "Cannot add subclass events after the parent window is created."
    ELSE "none"

\* The panic of gui::Button::on, which tests the parent alone.
Button_on_panic(parent_created) ==
    IF parent_created
    THEN "Cannot add events after the button parent was created."
    ELSE "none"

create_window_panic_no_twice(hwnd, parent_created) ==
    IF ~parent_created
    THEN "Cannot create control before parent window is created."
    ELSE "none"

\* The panics of NativeControlBase::create_window.
create_window_panic(hwnd, parent_created) ==
    IF hwnd # NULL THEN "Cannot create control twice."
    ELSE IF ~parent_created
    THEN "Cannot create control before parent window is created."
    ELSE "none"

\* The panics of NativeControlBase::create_dlg.
create_dlg_panic(hwnd, parent_created, parent_is_dlg) ==
    IF hwnd # NULL THEN "Cannot create control twice."
    ELSE IF ~parent_created
    THEN "Cannot create control before parent window is created."
    ELSE IF ~parent_is_dlg
    THEN "Parent window is not a dialog, cannot create control."
    ELSE "none"

\* HWND::CreateWindowEx
CreateWindowEx(osret, lastErr) ==
    IF osret = NULL THEN Err(lastErr) ELSE Ok(osret)

\* HWND::GetDlgItem, as create_dlg uses it: the item's handle or the error.
GetDlgItem(osret, lastErr) ==
    IF osret = NULL THEN Err(lastErr) ELSE Ok(osret)

\* HWND::SetWindowSubclass
SetWindowSubclass(ret, lastErr) ==
    IF ret = 0 THEN Err(lastErr) ELSE Ok(TRUE)

\* What the platform answers to a window request: a handle, or null and an
\* error code.
WindowOutcomes ==
    {<<h, 0>> : h \in ValidHandles} \cup {<<NULL, e>> : e \in LastErrors}

\* What the platform answers to SetWindowSubclass.
SubclassOutcomes == {<<1, 0>>} \cup {<<0, e>> : e \in LastErrors}

install_subclass_always(n, os) ==
    [called |-> TRUE, res |-> SetWindowSubclass(os[1], os[2])]

\* NativeControlBase::install_subclass_if_needed, for n subclass handlers.
install_subclass_if_needed(n, os) ==
    IF n # 0
    THEN [called |-> TRUE, res |-> SetWindowSubclass(os[1], os[2])]
    ELSE [called |-> FALSE, res |-> Ok(TRUE)]

\* Button::ctrl_id
Button_ctrl_id == btn.ctrl_id

\* Button::new: the ID is defined, read for the events, then defined again.
Button_new(id) ==
    /\ guiPanic = "none"
    /\ btn.st = "none"
    /\ LET opts1 == define_ctrl_id(id, next_auto_id)
           opts2 == define_ctrl_id(opts1.ctrl_id, opts1.next)
       IN  /\ btn' = [st |-> "built", kind |-> "Wnd", requested |-> id,
                      events_id |-> opts1.ctrl_id, ctrl_id |-> opts2.ctrl_id]
           /\ next_auto_id' = opts2.next
    /\ UNCHANGED <<parent, base_hwnd, parent_events, subclass_events, guiPanic,
                   lastOn, createCalls, winCreated, createRes, subclassCalls,
                   BASE_SUBCLASS_ID>>
    /\ UNCHANGED <<guardVars, snapVars, comVars, layoutVars, shellVars>>

\* Button::new_dlg: the ID of the dialog resource is used as given.
Button_new_dlg(id) ==
    /\ guiPanic = "none"
    /\ btn.st = "none"
    /\ btn' = [st |-> "built", kind |-> "Dlg", requested |-> id,
               events_id |-> id, ctrl_id |-> id]
    /\ UNCHANGED <<parent, base_hwnd, parent_events, subclass_events, guiPanic,
                   lastOn, createCalls, winCreated, createRes, subclassCalls,
                   BASE_SUBCLASS_ID, next_auto_id>>
    /\ UNCHANGED <<guardVars, snapVars, comVars, layoutVars, shellVars>>

\* The parent window comes into being: the handle the control reads through
\* ptr_parent_hwnd stops being null.
Parent_create ==
    /\ guiPanic = "none"
    /\ parent.hwnd = NULL
    /\ \E h \in ValidHandles, d \in BOOLEAN : parent' = [hwnd |-> h, dlg |-> d]
    /\ UNCHANGED <<btn, base_hwnd, parent_events, subclass_events, guiPanic,
                   lastOn, createCalls, winCreated, createRes, subclassCalls,
                   BASE_SUBCLASS_ID, next_auto_id>>
    /\ UNCHANGED <<guardVars, snapVars, comVars, layoutVars, shellVars>>

\* A call of on / on_subclass whose panic message is p: the call panics, or
\* returns the registry and the caller adds one handler to it.
OnCall(op, p, events) ==
    /\ guiPanic = "none"
    /\ btn.st = "built"
    /\ p = "none" => events < MaxEvents
    /\ lastOn' = [called |-> TRUE, op |-> op, created |-> base_hwnd # NULL,
                  parent_created |-> is_parent_created,
                  panicked |-> p # "none"]
    /\ guiPanic' = p
    /\ UNCHANGED <<parent, btn, base_hwnd, createCalls, winCreated, createRes,
                   subclassCalls, BASE_SUBCLASS_ID, next_auto_id>>
    /\ UNCHANGED <<guardVars, snapVars, comVars, layoutVars, shellVars>>

\* native_controls Button::on, which is NativeControlBase::on.
Button_on ==
    LET p == on_panic(base_hwnd, is_parent_created)
    IN  /\ OnCall("on", p, parent_events)
        /\ parent_events' = IF p = "none" THEN parent_events + 1 ELSE parent_events
        /\ UNCHANGED subclass_events

\* Button::on_subclass, which is NativeControlBase::on_subclass.
Button_on_subclass ==
    LET p == on_subclass_panic(base_hwnd, is_parent_created)
    IN  /\ OnCall("on_subclass", p, subclass_events)
        /\ subclass_events' =
               IF p = "none" THEN subclass_events + 1 ELSE subclass_events
        /\ UNCHANGED parent_events

\* gui::Button::on
gui_Button_on ==
    LET p == Button_on_panic(is_parent_created)
    IN  /\ OnCall("gui::Button::on", p, parent_events)
        /\ parent_events' = IF p = "none" THEN parent_events + 1 ELSE parent_events
        /\ UNCHANGED subclass_events

\* Button::create. With OptsId::Wnd it is create_window, with OptsId::Dlg
\* create_dlg: hwnd is assigned as soon as the platform hands the window
\* over, then the subclass is installed, and `?` returns either error.
Button_create ==
    /\ guiPanic = "none"
    /\ btn.st = "built"
    /\ createCalls < MaxCreate
    /\ createCalls' = createCalls + 1
    /\ LET p == IF btn.kind = "Wnd"
                THEN create_window_panic(base_hwnd, is_parent_created)
                ELSE create_dlg_panic(base_hwnd, is_parent_created, parent.dlg)
       IN  IF p # "none"
           THEN /\ guiPanic' = p
                /\ UNCHANGED <<base_hwnd, winCreated, createRes, subclassCalls,
                               BASE_SUBCLASS_ID>>
           ELSE \E os \in WindowOutcomes, sc \in SubclassOutcomes :
                LET got == IF btn.kind = "Wnd"
                           THEN CreateWindowEx(os[1], os[2])
                           ELSE GetDlgItem(os[1], os[2])
                    inst == install_subclass_if_needed(subclass_events, sc)
                IN  /\ UNCHANGED guiPanic
                    /\ IF ~got.ok
                       THEN /\ createRes' = [called |-> TRUE, id |-> Button_ctrl_id,
                                             window |-> FALSE, res |-> Err(got.err)]
                            /\ UNCHANGED <<base_hwnd, winCreated, subclassCalls,
                                           BASE_SUBCLASS_ID>>
                       ELSE /\ base_hwnd' = got.val
                            /\ winCreated' = winCreated + 1
                            /\ IF inst.called
                               THEN /\ BASE_SUBCLASS_ID' = BASE_SUBCLASS_ID + 1
                                    /\ subclassCalls' =
                                         Append(subclassCalls,
                                                [hwnd |-> got.val,
                                                 id |-> BASE_SUBCLASS_ID + 1,
                                                 ref |-> SelfPtr])
                               ELSE UNCHANGED <<subclassCalls, BASE_SUBCLASS_ID>>
                            /\ createRes' =
                                 [called |-> TRUE, id |-> Button_ctrl_id,
                                  window |-> TRUE,
                                  res |-> IF inst.res.ok THEN Ok(got.val)
                                          ELSE Err(inst.res.err)]
    /\ UNCHANGED <<parent, btn, parent_events, subclass_events, lastOn,
                   next_auto_id>>
    /\ UNCHANGED <<guardVars, snapVars, comVars, layoutVars, shellVars>>

\* ------------------------------------------------------- layout arranger
\* Controls a LayoutArranger holds.
MaxCtrls == 2

HorzKinds == {"None", "Repos", "Resize"}

VertKinds == {"None", "Repos", "Resize"}

\* Client areas GetClientRect reports for the parent: right and bottom.
ParentRects ==
    {[left |-> 0, top |-> 0, right |-> 4, bottom |-> 3],
     [left |-> 0, top |-> 0, right |-> 5, bottom |-> 5]}

\* Rectangles of a child, relative to the parent.
ChildRects == {[left |-> 1, top |-> 2, right |-> 4, bottom |-> 3]}

\* The wm::Size messages the parent receives.
SizeMsgs ==
    {[request |-> r, client_area |-> sz] :
        r \in {"RESTORED", "MINIMIZED"},
        sz \in {[cx |-> 3, cy |-> 7], [cx |-> 6, cy |-> 2]}}

\* Results of GetClientRect, and of GetWindowRect followed by
\* ScreenToClientRc.
RectOutcomes(rects) == {Ok(rc) : rc \in rects} \cup {Err(e) : e \in LastErrors}

\* GetClientRect is called for the first control alone.
ClientRectOutcomes ==
    IF ctrls = <<>> THEN RectOutcomes(ParentRects)
    ELSE {Ok([right |-> 0, bottom |-> 0])}

\* What the platform answers to the calls of one rearrange over n controls:
\* BeginDeferWindowPos fails, or the DeferWindowPos call of control `fail`
\* fails, or none does (fail = 0).
DeferOutcomes(n) ==
    {[begin |-> Err(e), fail |-> 0, err |-> 0] : e \in LastErrors}
    \cup {[begin |-> Ok(TRUE), fail |-> 0, err |-> 0]}
    \cup {[begin |-> Ok(TRUE), fail |-> k, err |-> e] :
            k \in 1..n, e \in LastErrors}

DeferArgs_swapped(ctrl, p, sz) ==
    [uflags |-> {"NOZORDER"},
     x |-> IF ctrl.horz = "Resize"
           THEN p.client_area.cx - sz.cx + ctrl.rc_orig.left
           ELSE ctrl.rc_orig.left,
     y |-> IF ctrl.vert = "Resize"
           THEN p.client_area.cy - sz.cy + ctrl.rc_orig.top
           ELSE ctrl.rc_orig.top,
     cx |-> IF ctrl.horz = "Repos"
            THEN p.client_area.cx - sz.cx + ctrl.rc_orig.right - ctrl.rc_orig.left
            ELSE ctrl.rc_orig.right - ctrl.rc_orig.left,
     cy |-> IF ctrl.vert = "Repos"
            THEN p.client_area.cy - sz.cy + ctrl.rc_orig.bottom - ctrl.rc_orig.top
            ELSE ctrl.rc_orig.bottom - ctrl.rc_orig.top]

\* The flags, position and size rearrange passes to DeferWindowPos for one
\* control, p being the message and sz the saved parent size.
DeferArgs(ctrl, p, sz) ==
    [uflags |-> IF ctrl.horz = "Repos" /\ ctrl.vert = "Repos"
                THEN {"NOZORDER", "NOSIZE"}
                ELSE IF ctrl.horz = "Resize" /\ ctrl.vert = "Resize"
                THEN {"NOZORDER", "NOMOVE"}
                ELSE {"NOZORDER"},
     x |-> IF ctrl.horz = "Repos"
           THEN p.client_area.cx - sz.cx + ctrl.rc_orig.left
           ELSE ctrl.rc_orig.left,
     y |-> IF ctrl.vert = "Repos"
           THEN p.client_area.cy - sz.cy + ctrl.rc_orig.top
           ELSE ctrl.rc_orig.top,
     cx |-> IF ctrl.horz = "Resize"
            THEN p.client_area.cx - sz.cx + ctrl.rc_orig.right - ctrl.rc_orig.left
            ELSE ctrl.rc_orig.right - ctrl.rc_orig.left,
     cy |-> IF ctrl.vert = "Resize"
            THEN p.client_area.cy - sz.cy + ctrl.rc_orig.bottom - ctrl.rc_orig.top
            ELSE ctrl.rc_orig.bottom - ctrl.rc_orig.top]

\* LayoutArranger::add_child
add_child(hparent, hchild, horz, vert) ==
    /\ layoutPanic = "none"
    /\ Len(ctrls) < MaxCtrls
    /\ IF hparent = NULL \/ hchild = NULL
       THEN /\ layoutPanic' =
                 "Cannot add resizer entries before window/control creation."
            /\ UNCHANGED <<ctrls, sz_parent_orig>>
       ELSE /\ UNCHANGED layoutPanic
            /\ IF horz = "None" /\ vert = "None"
               THEN UNCHANGED <<ctrls, sz_parent_orig>>
               ELSE \E rc_parent \in ClientRectOutcomes,
                       rc_orig \in RectOutcomes(ChildRects) :
                    IF ctrls = <<>> /\ ~rc_parent.ok
                    THEN UNCHANGED <<ctrls, sz_parent_orig>>
                    ELSE /\ sz_parent_orig' =
                              IF ctrls = <<>>
                              THEN [cx |-> rc_parent.val.right,
                                    cy |-> rc_parent.val.bottom]
                              ELSE sz_parent_orig
                         /\ ctrls' =
                              IF rc_orig.ok
                              THEN Append(ctrls, [hchild |-> hchild,
                                                  rc_orig |-> rc_orig.val,
                                                  horz |-> horz, vert |-> vert])
                              ELSE ctrls
    /\ UNCHANGED <<lastSize, deferCalls>>
    /\ UNCHANGED <<guardVars, snapVars, comVars, guiVars, shellVars>>

\* LayoutArranger::rearrange, os being the platform's answers: `?` returns
\* at the first failure.
rearrange(p, os) ==
    /\ layoutPanic = "none"
    /\ IF ctrls = <<>> \/ p.request = "MINIMIZED"
       THEN /\ deferCalls' = <<>>
            /\ lastSize' = [called |-> TRUE, p |-> p, res |-> Ok(TRUE)]
       ELSE IF ~os.begin.ok
       THEN /\ deferCalls' = <<>>
            /\ lastSize' = [called |-> TRUE, p |-> p, res |-> os.begin]
       ELSE LET n == IF os.fail = 0 THEN Len(ctrls) ELSE os.fail
            IN  /\ deferCalls' =
                     [k \in 1..n |->
                        [hchild |-> ctrls[k].hchild,
                         args |-> DeferArgs(ctrls[k], p, sz_parent_orig)]]
                /\ lastSize' = [called |-> TRUE, p |-> p,
                                res |-> IF os.fail = 0 THEN Ok(TRUE)
                                        ELSE Err(os.err)]
    /\ UNCHANGED <<ctrls, sz_parent_orig, layoutPanic>>
    /\ UNCHANGED <<guardVars, snapVars, comVars, guiVars, shellVars>>

\* ------------------------------------------------------ shell item array
\* Items an IShellItemArray may hold.
MaxItems == 2

\* Calls of next() a caller makes on one ShellItemIter.
MaxShellNext == MaxItems + 2

\* Statuses GetCount and GetItemAt may return.
ShellStatuses == {S_OK, S_FALSE, HR(32768, 16389)}

\* ole::privs::ok_to_hrresult: S_OK is success, any other status is the
\* error.
ok_to_hrresult(status) == IF status = S_OK THEN Ok(TRUE) ELSE Err(status)

\* shell_IShellItemArray::GetCount, count being the out-parameter.
GetCount(status, count) ==
    IF ok_to_hrresult(status).ok THEN Ok(count) ELSE ok_to_hrresult(status)

\* shell_IShellItemArray::GetItemAt, item being the queried pointer.
GetItemAt(status, item) ==
    IF ok_to_hrresult(status).ok THEN Ok(item) ELSE ok_to_hrresult(status)

\* The item the array holds at an index.
ItemAt(index) == [item |-> index]

\* ShellItemIter::new after GetCount succeeded.
ShellItemIter_new(count) == [st |-> "live", count |-> count, current |-> 0]

next_Err_continue(it) == [it EXCEPT !.current = it.current + 1]

\* ShellItemIter::next, the Err arm: no further iterations will be made.
next_Err(it) == [it EXCEPT !.current = it.count]

\* ShellItemIter::next, the Ok arm.
next_Ok(it) == [it EXCEPT !.current = it.current + 1]

ManuallyDrop_drop_releases(n) == n + 1

\* Release calls made on the array once a ManuallyDrop<IShellItemArray>
\* went out of scope, n having been made before: none is added.
ManuallyDrop_drop(n) == n

\* shell_IShellItemArray::iter: ShellItemIter::new reads the count once;
\* `?` returns its error, and the ManuallyDrop wrapper goes out of scope.
IShellItemArray_iter ==
    /\ arrayOwned
    /\ sit.st = "none"
    /\ \E status \in ShellStatuses, n \in 0..MaxItems :
         LET res == GetCount(status, n)
         IN  /\ iterRes' = [called |-> TRUE, status |-> status, n |-> n,
                            res |-> IF res.ok THEN Ok(TRUE) ELSE res]
             /\ IF res.ok
                THEN /\ sit' = ShellItemIter_new(res.val)
                     /\ UNCHANGED releaseCalls
                ELSE /\ sit' = [st |-> "failed"]
                     /\ releaseCalls' = ManuallyDrop_drop(releaseCalls)
    /\ getCountCalls' = getCountCalls + 1
    /\ UNCHANGED <<arrayOwned, itemCalls, yields>>
    /\ UNCHANGED <<guardVars, snapVars, comVars, guiVars, layoutVars>>

\* ShellItemIter::next
ShellItemIter_next ==
    /\ sit.st = "live"
    /\ Len(yields) < MaxShellNext
    /\ IF sit.current = sit.count
       THEN /\ yields' = Append(yields, [st |-> "None"])
            /\ UNCHANGED <<sit, itemCalls>>
       ELSE \E status \in ShellStatuses :
            LET res == GetItemAt(status, ItemAt(sit.current))
            IN  /\ itemCalls' = Append(itemCalls, sit.current)
                /\ IF ~res.ok
                   THEN /\ sit' = next_Err(sit)
                        /\ yields' = Append(yields, [st |-> "SomeErr",
                                                     err |-> res.err])
                   ELSE /\ sit' = next_Ok(sit)
                        /\ yields' = Append(yields, [st |-> "SomeOk",
                                                     val |-> res.val])
    /\ UNCHANGED <<arrayOwned, releaseCalls, iterRes, getCountCalls>>
    /\ UNCHANGED <<guardVars, snapVars, comVars, guiVars, layoutVars>>

\* The iterator goes out of scope: its array field is a ManuallyDrop.
ShellItemIter_drop ==
    /\ sit.st = "live"
    /\ sit' = [st |-> "dropped"]
    /\ releaseCalls' = ManuallyDrop_drop(releaseCalls)
    /\ UNCHANGED <<arrayOwned, iterRes, getCountCalls, itemCalls, yields>>
    /\ UNCHANGED <<guardVars, snapVars, comVars, guiVars, layoutVars>>

\* The IShellItemArray itself goes out of scope, which the borrow held by a
\* live iterator forbids: the owner calls Release.
IShellItemArray_drop ==
    /\ arrayOwned
    /\ sit.st # "live"
    /\ arrayOwned' = FALSE
    /\ releaseCalls' = releaseCalls + 1
    /\ UNCHANGED <<sit, iterRes, getCountCalls, itemCalls, yields>>
    /\ UNCHANGED <<guardVars, snapVars, comVars, guiVars, layoutVars>>

\* --------------------------------------------------------- specifications
NextAcquire ==
    \/ \E s \in Slots : Call_GetStdHandle(s)
    \/ \E s \in Slots : Call_CreateBitmap(s)
    \/ \E s \in Slots : Call_LoadCursor(s)
    \/ \E s \in Slots : Call_LoadIcon(s)
    \/ \E s \in Slots : Call_LoadImageBitmap(s)
    \/ \E s \in Slots : Call_LoadImageCursor(s)
    \/ \E s \in Slots : Call_LoadImageIcon(s)
    \/ \E s \in Slots : ScopeExit(s)
    \/ \E s \in Slots : Leak(s)

NextGuard ==
    \/ \E s \in Slots : CoUninitializeGuard_new(s)
    \/ \E a \in Slots, b \in Slots : Move(a, b)
    \/ \E s \in Slots : ScopeExit(s)

NextSnapshot ==
    \/ Ex_CreateToolhelp32Snapshot
    \/ Ex_iter
    \/ Iter_next
    \/ Ex_LoopBody
    \/ Ex_next_again
    \/ Ex_CloseHandle

NextCom ==
    \/ Call_Show
    \/ Call_GetAttributes

NextGui ==
    \/ \E id \in CtrlIdInputs : Button_new(id)
    \/ \E id \in CtrlIdInputs \ {0} : Button_new_dlg(id)
    \/ Parent_create
    \/ Button_on
    \/ Button_on_subclass
    \/ gui_Button_on
    \/ Button_create

NextLayout ==
    \/ \E hparent \in {NULL, 1}, hchild \in {NULL, Len(ctrls) + 1},
          horz \in HorzKinds, vert \in VertKinds :
            add_child(hparent, hchild, horz, vert)
    \/ \E p \in SizeMsgs, os \in DeferOutcomes(Len(ctrls)) : rearrange(p, os)

NextShell ==
    \/ IShellItemArray_iter
    \/ ShellItemIter_next
    \/ ShellItemIter_drop
    \/ IShellItemArray_drop

\* A program that runs the snapshot example and iterates over a shell
\* item array, in any interleaving.
NextIter ==
    \/ NextSnapshot
    \/ NextShell

Next ==
    \/ NextAcquire
    \/ NextGuard
    \/ NextSnapshot
    \/ NextCom
    \/ NextGui
    \/ NextLayout
    \/ NextShell

\* Guard-returning acquisitions of handles, detach and drop.
SpecAcquire == Init /\ [][NextAcquire]_vars

\* CoUninitializeGuard: construction, moves and drop.
SpecGuard == Init /\ [][NextGuard]_vars

\* The documented use of a process list snapshot.
SpecSnapshot == Init /\ [][NextSnapshot]_vars

\* The COM wrappers that decode the status themselves.
SpecCom == Init /\ [][NextCom]_vars

SpecGui == Init /\ [][NextGui]_vars

\* One LayoutArranger, its children and the size messages it handles.
SpecLayout == Init /\ [][NextLayout]_vars

\* One IShellItemArray and the iterator made from it.
SpecShell == Init /\ [][NextShell]_vars

\* Both kinds of iterator in one program.
SpecIter == Init /\ [][NextIter]_vars

Spec == Init /\ [][Next]_vars

\* ------------------------------------------------------------------ claims
CoGuards == {i \in Ids : att[i].op = "CoUninitializeGuard"}

HandleGuards == {i \in Ids : att[i].op \in HandleOps /\ att[i].res.ok}

\* C1: for every constructed CoUninitializeGuard, CoUninitialize has been
\* called zero times while the guard is alive and exactly once from the
\* moment it is dropped; never twice.
C1_CoUninitializeOncePerGuard ==
    \A i \in CoGuards :
        relCount[i] = IF life[i] = "dropped" THEN 1 ELSE 0

\* A CoUninitializeGuard has been dropped and its single release recorded.
C1_Witness ==
    \E i \in CoGuards : life[i] = "dropped" /\ relCount[i] = 1

\* C2 (as claimed): once the snapshot example has returned, on whichever
\* path, a snapshot the platform opened has been closed exactly once.
C2_SnapshotClosedOnEveryPath ==
    (pc \in {"ret_ok", "ret_err"} /\ snap.op # "none"
        /\ snap.osret \in ValidHandles)
    => (closeCalls = 1 /\ ~osOpen)

\* C3 (as claimed): CreateToolhelp32Snapshot is Err with the last error
\* whenever the platform call answers the invalid sentinel, and Ok only
\* with a handle that is neither null nor the invalid sentinel.
C3_SnapshotFailureIsErr ==
    snap.op # "none" =>
        /\ snap.osret = INVALID => snap.res = Err(snap.lastErr)
        /\ snap.res.ok => snap.res.val \notin {NULL, INVALID}

\* C4: when the platform call behind GetStdHandle, CreateBitmap, LoadCursor
\* or LoadIcon signals failure, the result is Err with the last error, no
\* guard exists for the attempt and no release call is made for it.
C4_FailureYieldsErrAndNoGuard ==
    \A i \in Ids :
        (/\ att[i].op \in {"GetStdHandle", "CreateBitmap", "LoadCursor", "LoadIcon"}
         /\ att[i].osret = OsFailure(att[i].op))
        => /\ att[i].res = Err(att[i].lastErr)
           /\ att[i].lastErr \in LastErrors
           /\ life[i] = "none"
           /\ held[i] = Nothing
           /\ \A s \in Slots : slot[s] \notin {Owns(i), MovedFrom(i)}
           /\ relCount[i] = 0
           /\ relArg[i] = {}

\* The first attempt was one of the four operations and failed; a later
\* acquisition succeeded and its guard has been dropped.
C4_Witness ==
    /\ nAtt = MaxGuards
    /\ att[1].op \in {"GetStdHandle", "CreateBitmap", "LoadCursor", "LoadIcon"}
    /\ att[1].osret = OsFailure(att[1].op)
    /\ ~att[1].res.ok
    /\ life[2] = "dropped"

\* C5 (as claimed): every guard returned as Ok holds a handle that is
\* neither null nor the invalid sentinel.
C5_OkGuardHoldsValidHandle ==
    \A i \in HandleGuards : att[i].res.val \notin {NULL, INVALID}

\* C6: after a detach the caller has exactly the handle the guard was
\* built with, the guard is empty, and no release call is made for it,
\* also not when the guard is dropped afterwards.
C6_DetachSuppressesRelease ==
    \A i \in Ids :
        detachRet[i].st = "has"
        => /\ detachRet[i].h = att[i].res.val
           /\ held[i] = Emptied
           /\ relCount[i] = 0
           /\ relArg[i] = {}

\* A guard was detached and then dropped.
C6_Witness ==
    \E i \in HandleGuards :
        detachRet[i].st = "has" /\ life[i] = "dropped" /\ relCount[i] = 0

\* C7: a step that moves a guard from one owner to another makes no
\* release call for it and leaves the source moved-from; a moved-from
\* owner going out of scope releases nothing; no guard is ever released
\* more than once, and a dropped guard has been released exactly once.
C7_MoveReleasesNothing ==
    [][/\ \A i \in Ids : \A a \in Slots, b \in Slots :
            (a # b /\ slot[a] = Owns(i) /\ slot'[b] = Owns(i))
            => /\ relCount'[i] = relCount[i]
               /\ slot'[a] = MovedFrom(i)
               /\ life'[i] = "live"
       /\ \A s \in Slots :
            (slot[s].st = "moved" /\ slot'[s].st = "empty")
            => (relCount' = relCount /\ life' = life)
       /\ \A i \in Ids :
            /\ relCount'[i] <= 1
            /\ (i \in moved' /\ life'[i] = "dropped") => relCount'[i] = 1
      ]_vars

\* A guard was moved, its moved-from source went out of scope, and the
\* guard was then dropped by its new owner.
C7_Witness ==
    \E i \in CoGuards :
        /\ i \in moved
        /\ life[i] = "dropped"
        /\ relCount[i] = 1
        /\ \A s \in Slots : slot[s] = EmptySlot

\* C8: the handle a guard stores is the value the platform call returned
\* for its own acquisition, and the only handle ever released on behalf of
\* a guard is that one, at most once.
C8_HandleIdentityPreserved ==
    \A i \in HandleGuards :
        /\ att[i].res.val = att[i].osret
        /\ held[i].st = "has" => held[i].h = att[i].osret
        /\ relArg[i] \subseteq {att[i].osret}
        /\ relCount[i] <= 1

\* Two guards with different handles were alive together; both have been
\* dropped, each releasing its own handle.
C8_Witness ==
    \E i \in HandleGuards, j \in HandleGuards :
        /\ i # j
        /\ att[i].osret # att[j].osret
        /\ att[i].osret \in ValidHandles
        /\ att[j].osret \in ValidHandles
        /\ relArg[i] = {att[i].osret}
        /\ relArg[j] = {att[j].osret}

\* C9: Show and GetAttributes are Ok exactly for status zero and for their
\* one designated status (the cancelled status for Show, S_FALSE for
\* GetAttributes); every other status comes back as Err with that status.
C9_StatusDecoding ==
    /\ showCall.called =>
        /\ showCall.res.ok <=> showCall.status \in {HR(0, 0), HR(32775, 1223)}
        /\ ~showCall.res.ok => showCall.res = Err(showCall.status)
    /\ attrCall.called =>
        /\ attrCall.res.ok <=> attrCall.status \in {HR(0, 0), HR(0, 1)}
        /\ attrCall.res.ok => attrCall.res = Ok(attrCall.attrs)
        /\ ~attrCall.res.ok => attrCall.res = Err(attrCall.status)

\* GetAttributes succeeded on S_FALSE and Show failed on a failure status.
C9_Witness ==
    /\ attrCall.called /\ attrCall.status = HR(0, 1) /\ attrCall.res.ok
    /\ showCall.called /\ showCall.res = Err(HR(32768, 16389))

\* C10: Show is Ok(true) for S_OK, Ok(false) for 0x800704C7 (the HRESULT
\* of ERROR_CANCELLED) and Err(status) for every other status.
C10_ShowResult ==
    showCall.called =>
        showCall.res =
            CASE showCall.status = HR(0, 0) -> Ok(TRUE)
              [] showCall.status = HR(32775, 1223) -> Ok(FALSE)
              [] OTHER -> Err(showCall.status)

\* Show was answered with the cancelled status and returned Ok(false).
C10_Witness ==
    showCall.called /\ showCall.status = HR(32775, 1223)
        /\ showCall.res = Ok(FALSE)

C12_CreatedAtMostOnce ==
    [][/\ (createCalls' # createCalls /\ (base_hwnd # NULL \/ parent.hwnd = NULL))
            => /\ guiPanic' # "none"
               /\ winCreated' = winCreated
               /\ base_hwnd' = base_hwnd
       /\ winCreated' <= 1
      ]_vars

\* The control was created by one call and the next create call panicked.
C12_Witness ==
    /\ winCreated = 1
    /\ createCalls = 2
    /\ createRes.called
    /\ createRes.res.ok
    /\ guiPanic = "Cannot create control twice."

\* C13: the handle is null from construction; it is non-null only after a
\* create call returned Ok, and a create call that returned Err leaves it
\* null.
C13_HandleNullUnlessCreateOk ==
    /\ base_hwnd # NULL => (createRes.called /\ createRes.res.ok)
    /\ (createRes.called /\ ~createRes.res.ok) => base_hwnd = NULL

\* C17: Button::new keeps a non-zero control ID as given and replaces a
\* zero ID by exactly one generated ID; the ID ctrl_id() reports, the ID
\* the events are registered under and the ID passed to window creation
\* are the same.
C17_CtrlIdStable ==
    btn.st = "built" =>
        /\ btn.kind = "Wnd" =>
             IF btn.requested # 0
             THEN Button_ctrl_id = btn.requested /\ next_auto_id = AutoIdBase
             ELSE /\ Button_ctrl_id = AutoIdBase
                  /\ Button_ctrl_id # 0
                  /\ next_auto_id = AutoIdBase + 1
        /\ btn.events_id = Button_ctrl_id
        /\ createRes.called => createRes.id = Button_ctrl_id

\* A Button built with the default ID of zero has handlers and got its
\* window under the generated ID.
C17_Witness ==
    /\ btn.st = "built"
    /\ btn.kind = "Wnd"
    /\ btn.requested = 0
    /\ parent_events > 0
    /\ createRes.called
    /\ createRes.window
    /\ createRes.id = AutoIdBase

\* C18: once the platform has handed the window over, SetWindowSubclass
\* has been called exactly when a subclass handler was registered before
\* creation, on that window and with the control base as reference data;
\* with no subclass handler it is never called and the create call
\* returns Ok.
C18_SubclassIffEvents ==
    /\ winCreated = 0 => subclassCalls = <<>>
    /\ winCreated > 0 => (Len(subclassCalls) = 1 <=> subclass_events > 0)
    /\ Len(subclassCalls) <= 1
    /\ \A k \in 1..Len(subclassCalls) :
         /\ subclassCalls[k].ref = SelfPtr
         /\ subclassCalls[k].hwnd = base_hwnd
    /\ (createRes.called /\ createRes.window /\ subclass_events = 0)
         => (createRes.res.ok /\ subclassCalls = <<>>)

\* A control with a subclass handler was created and the subclass was
\* installed.
C18_Witness ==
    /\ subclass_events > 0
    /\ Len(subclassCalls) = 1
    /\ createRes.called
    /\ createRes.res.ok
    /\ base_hwnd # NULL

\* C14: every DeferWindowPos call of rearrange places its control by the
\* rule of that control: horizontally, Repos moves x by the change of the
\* parent width and keeps the width, Resize keeps x and adds the change to
\* the width, None keeps both; vertically likewise with y and the height.
C14_RearrangeGeometry ==
    \A k \in 1..Len(deferCalls) :
        LET c == ctrls[k]
            a == deferCalls[k].args
            dx == lastSize.p.client_area.cx - sz_parent_orig.cx
            dy == lastSize.p.client_area.cy - sz_parent_orig.cy
            width == c.rc_orig.right - c.rc_orig.left
            height == c.rc_orig.bottom - c.rc_orig.top
        IN  /\ deferCalls[k].hchild = c.hchild
            /\ lastSize.p.request # "MINIMIZED"
            /\ c.horz = "Repos" => (a.x = c.rc_orig.left + dx /\ a.cx = width)
            /\ c.horz = "Resize" => (a.x = c.rc_orig.left /\ a.cx = width + dx)
            /\ c.horz = "None" => (a.x = c.rc_orig.left /\ a.cx = width)
            /\ c.vert = "Repos" => (a.y = c.rc_orig.top + dy /\ a.cy = height)
            /\ c.vert = "Resize" => (a.y = c.rc_orig.top /\ a.cy = height + dy)
            /\ c.vert = "None" => (a.y = c.rc_orig.top /\ a.cy = height)

\* A rearrange for a parent that changed both width and height placed two
\* controls, one repositioned horizontally and resized vertically, the
\* other resized horizontally only.
C14_Witness ==
    /\ Len(deferCalls) = 2
    /\ lastSize.res.ok
    /\ lastSize.p.client_area.cx # sz_parent_orig.cx
    /\ lastSize.p.client_area.cy # sz_parent_orig.cy
    /\ ctrls[1].horz = "Repos" /\ ctrls[1].vert = "Resize"
    /\ ctrls[2].horz = "Resize" /\ ctrls[2].vert = "None"

\* C15: the first next() of an iterator calls its *First operation, once;
\* every later next() that reaches the platform calls *Next, and a next()
\* after the end or an error reaches the platform no more; so *Next is
\* never called before *First and *First is never called twice.
C15_FirstThenNext ==
    [][/\ nextInvoked' # nextInvoked
            => IF nextInvoked = 0
               THEN firstCalls = 0 /\ firstCalls' = 1 /\ nextCalls' = 0
               ELSE /\ firstCalls' = firstCalls
                    /\ nextCalls' = IF lastItem.st = "SomeOk"
                                    THEN nextCalls + 1 ELSE nextCalls
       /\ firstCalls' <= 1
       /\ nextCalls' > 0 => firstCalls' = 1
       /\ nextInvoked' = nextInvoked =>
            (firstCalls' = firstCalls /\ nextCalls' = nextCalls)
      ]_vars

\* An iterator was driven to its end and called once more: one *First
\* call, one *Next call per further entry and for the end, none after.
C15_Witness ==
    /\ firstCalls = 1
    /\ nextCalls = MaxEntries
    /\ nextInvoked = MaxEntries + 2
    /\ lastItem.st = "None"
    /\ ~iter.has_more

\* The position of the first next() that did not yield an item, one past
\* the last call when every call yielded one.
FirstEnd ==
    IF \E j \in 1..Len(yields) : yields[j].st # "SomeOk"
    THEN CHOOSE j \in 1..Len(yields) :
            /\ yields[j].st # "SomeOk"
            /\ \A i \in 1..(j - 1) : yields[i].st = "SomeOk"
    ELSE Len(yields) + 1

\* C16: iter() reads the count with one GetCount call and is Err when that
\* call fails; the next() calls yield the items of indexes 0, 1, .. in
\* increasing order, each from one GetItemAt call, and None after the item
\* of index count - 1; an error of GetItemAt is yielded once, and every
\* later next() returns None without calling GetItemAt.
C16_IterYieldsInOrder ==
    /\ getCountCalls = IF iterRes.called THEN 1 ELSE 0
    /\ iterRes.called =>
         /\ iterRes.res.ok <=> iterRes.status = S_OK
         /\ iterRes.res.ok <=> sit.st \in {"live", "dropped"}
         /\ sit.st = "live" => sit.count = iterRes.n
    /\ ~(iterRes.called /\ iterRes.res.ok) => (yields = <<>> /\ itemCalls = <<>>)
    /\ (iterRes.called /\ iterRes.res.ok) =>
         /\ \A j \in 1..Len(yields) :
              IF j < FirstEnd
              THEN /\ j <= iterRes.n
                   /\ yields[j] = [st |-> "SomeOk", val |-> ItemAt(j - 1)]
              ELSE IF j = FirstEnd /\ j <= iterRes.n
              THEN yields[j].st = "SomeErr"
              ELSE yields[j].st = "None"
         /\ Len(itemCalls) =
              Cardinality({j \in 1..Len(yields) : yields[j].st # "None"})
         /\ \A j \in 1..Len(itemCalls) : itemCalls[j] = j - 1

\* An iterator over two items yielded the first, then the error of the
\* second GetItemAt call, then None twice.
C16_Witness ==
    /\ iterRes.called
    /\ iterRes.n = MaxItems
    /\ Len(yields) = MaxShellNext
    /\ yields[1].st = "SomeOk"
    /\ yields[2].st = "SomeErr"
    /\ yields[3].st = "None"
    /\ yields[MaxShellNext].st = "None"
    /\ itemCalls = <<0, 1>>

\* C19: the iterators own nothing. A step that creates, advances or drops
\* the ShellItemIter makes no Release call on the array, whose only
\* Release is the one of its owner going out of scope; a step that
\* creates, advances or drops a process list iterator neither closes the
\* snapshot handle nor changes whether the snapshot is open.
C19_IteratorsNonOwning ==
    [][/\ (sit' # sit \/ yields' # yields \/ iterRes' # iterRes)
            => releaseCalls' = releaseCalls
       /\ releaseCalls' # releaseCalls
            => /\ arrayOwned /\ ~arrayOwned'
               /\ sit.st # "live"
               /\ releaseCalls' = releaseCalls + 1
       /\ (iter' # iter \/ nextInvoked' # nextInvoked
           \/ (pc = "body" /\ pc' # "next"))
            => (closeCalls' = closeCalls /\ osOpen' = osOpen)
       /\ closeCalls' # closeCalls => pc = "close"
      ]_vars

\* A process list iterator was advanced and dropped by an error entry,
\* and a ShellItemIter was advanced and dropped: the snapshot is open and
\* unclosed, the array still owned and never released.
C19_Witness ==
    /\ pc = "ret_err"
    /\ nextInvoked > 1
    /\ lastItem.st = "SomeErr"
    /\ closeCalls = 0
    /\ osOpen
    /\ sit.st = "dropped"
    /\ Len(yields) > 1
    /\ arrayOwned
    /\ releaseCalls = 0

====
